---- MODULE Spec2Model ----
(***************************************************************************)
(* The per-actor execution core of actix-async (src/src/context.rs): the   *)
(* Context (mailbox receive end, delay_queue, interval_queue, state), the  *)
(* background tasks behind run_later / run_interval / add_stream, and the  *)
(* driver ContextWithActor (first_run, run, handle_message, Drop).         *)
(*                                                                         *)
(* One step of a background task is one poll of its future; one step of   *)
(* the driver is the code between two await points.  A handler or hook is  *)
(* a future that, once started, either completes, panics, or calls one of  *)
(* the Context operations it has access to.                                *)
(***************************************************************************)
EXTENDS Naturals, Sequences, FiniteSets, TLC

\* ---------------------------------------------------------------- bounds
\* Budgets of one run.
MaxOps == 3          \* Spec: messages sent through an address
MaxSchedOps == 2     \* SchedSpec: messages sent and interval periods elapsed
MaxSchedules == 1    \* SchedSpec: run_later / run_interval calls
MaxDelayOps == 2     \* DelaySpec: messages sent
MaxDelays == 1       \* DelaySpec: run_later calls
MaxPeriods == 3      \* IntervalSpec: interval periods elapsed
MaxIntervals == 1    \* IntervalSpec: run_interval calls
MaxItems == 3        \* StreamSpec: stream items yielded
MaxStreams == 1      \* StreamSpec: add_stream calls
MaxTokenPeriods == 1   \* TokenSpec
MaxTokenSchedules == 2 \* TokenSpec
MaxResolvePeriods == 1   \* ResolveSpec
MaxResolveSchedules == 2 \* ResolveSpec
MaxPanics == 1     \* handler / hook panics over one run
StreamLen == 3     \* items of an attached stream
MailboxCap == 2    \* capacity of the mailbox channel (CHANNEL_CAP, scaled)

VARIABLES
    state,           \* Context.state
    rxClosed,        \* Context.rx has been close()d
    addrAlive,       \* some strong Addr (channel sender) still exists
    mailbox,         \* messages buffered in Context.rx
    delay_queue,     \* Context.delay_queue (a Slab)
    interval_queue,  \* Context.interval_queue (a Slab)
    cache_mut,       \* ContextWithActor.cache_mut
    cache_ref,       \* ContextWithActor.cache_ref
    drop_notify,     \* ContextWithActor.drop_notify (0 = None)
    fut,             \* the FuturesUnordered of run(): handlers in flight
    excl,            \* the exclusive handlers being executed
    pc,              \* the driver's position
    after,           \* where try_handle_concurrent returns to
    tasks,           \* the spawned background tasks and their handles
    ops,             \* the budget left: messages / periods / items, schedules
    panics,          \* panics so far
    nch,             \* acknowledgement channels created so far
    ndisp,           \* payload -> times handed to the cache / exclusive path
    nstart,          \* payload -> times its handler future was started
    ndone,           \* payload -> times its handler future completed
    onStart,         \* times the start hook was started
    onStop,          \* times the stop hook was started
    signaled,        \* acknowledgement channel -> times signaled
    dropped          \* acknowledgement channels dropped unsignaled

vars == <<state, rxClosed, addrAlive, mailbox, delay_queue, interval_queue,
          cache_mut, cache_ref, drop_notify, fut, excl, pc, after, tasks,
          ops, panics, nch, ndisp, nstart, ndone, onStart, onStop,
          signaled, dropped>>

\* ------------------------------------------------------------- helpers
Range(s) == {s[i] : i \in DOMAIN s}

Cnt(f, x) == IF x \in DOMAIN f THEN f[x] ELSE 0

Inc(f, x) == [y \in DOMAIN f \cup {x} |-> Cnt(f, y) + (IF y = x THEN 1 ELSE 0)]

IncAll(f, S) == [y \in DOMAIN f \cup S |-> Cnt(f, y) + (IF y \in S THEN 1 ELSE 0)]

Empty == [x \in {} |-> 0]

\* A message object: kind Ref/Mut, where it came from, which schedule, which
\* item / clone of that schedule.
NoP == [kind |-> "None", org |-> "none", sch |-> 0, n |-> 0]

Payload(k, o, s, n) == [kind |-> k, org |-> o, sch |-> s, n |-> n]

\* ActorMessage
Msg(t, p, tok, s) == [t |-> t, p |-> p, tok |-> tok, s |-> s]

NoMsg == Msg("None", NoP, 0, "None")

MsgOf(p) == Msg(p.kind, p, 0, "None")

TokenMsg(t, tok) == Msg(t, NoP, tok, "None")

StateMsg(s, ch) == Msg("ActorState", NoP, ch, s)

\* ---------------------------------------------------------------- Slab
\* slab::Slab as used by delay_queue / interval_queue: keys are 0-based,
\* a vacant entry links to the next vacant key, insert takes key `next`.
SlabNew == [entries |-> <<>>, next |-> 0]

SlabContains(s, key) == key < Len(s.entries) /\ s.entries[key + 1].occ

SlabGet(s, key) == s.entries[key + 1].val

SlabKey(s) == s.next

SlabInsert(s, v) ==
    IF s.next = Len(s.entries)
    THEN [entries |-> Append(s.entries, [occ |-> TRUE, val |-> v, nxt |-> 0]),
          next |-> s.next + 1]
    ELSE [entries |-> [s.entries EXCEPT ![s.next + 1] = [occ |-> TRUE, val |-> v, nxt |-> 0]],
          next |-> s.entries[s.next + 1].nxt]

\* The values stored in the slab.
SlabVals(s) == {s.entries[j].val : j \in {k \in DOMAIN s.entries : s.entries[k].occ}}

SlabRemove(s, key) ==
    [entries |-> [s.entries EXCEPT ![key + 1] = [occ |-> FALSE, val |-> NoP, nxt |-> s.next]],
     next |-> key]

\* ------------------------------------------------------------- channel
\* The receiving half is gone once the driver (and its Context) is dropped.
RxGone == pc = "done"

\* A channel on which rx.close() does not turn senders away.
SendFailsOnlyWhenGone == RxGone \/ ~addrAlive

\* A send fails once rx.close() was called, the receiver is gone, or no
\* strong address is left for the weak address to upgrade to.
SendFails == rxClosed \/ RxGone \/ ~addrAlive

HasRoom == Len(mailbox) < MailboxCap

\* try_recv() answers Closed / recv() answers None: closed and drained.
ChanClosed == rxClosed \/ ~addrAlive

\* ------------------------------------------------------------- Context
\* Context::stop
Stop ==
    /\ rxClosed' = TRUE
    /\ state' = "StopGraceful"

\* MessageHandler::finished, as Drop uses it to prune cache_ref: the
\* message object's handler has run to completion.
Finished(p) == Cnt(ndone, p) > 0

\* try_handle_concurrent, lines 290-304: every cached message's handler
\* future is created and pushed into fut; with an empty cache the call
\* returns at once to `a`.
BeginFlush(a) ==
    IF cache_ref = <<>>
    THEN /\ pc' = a
         /\ UNCHANGED <<fut, after, nstart>>
    ELSE /\ pc' = "flush"
         /\ after' = a
         /\ fut' = fut \cup Range(cache_ref)
         /\ nstart' = IncAll(nstart, Range(cache_ref))

\* try_handle_concurrent without its drain loop: it returns with handlers
\* still in flight.
FlushDrainedSkipped == TRUE

\* try_handle_concurrent, line 307: the loop leaves only when fut is empty.
FlushDrained == fut = {}

\* try_handle_concurrent returning without cache_ref.clear().
FlushEndKeepCache ==
    /\ pc = "flush"
    /\ FlushDrained
    /\ pc' = after
    /\ after' = "none"
    /\ UNCHANGED <<state, rxClosed, addrAlive, mailbox, delay_queue,
                   interval_queue, cache_mut, cache_ref, drop_notify, fut,
                   excl, tasks, ops, panics, nch, ndisp, nstart, ndone,
                   onStart, onStop, signaled, dropped>>

\* try_handle_concurrent, lines 307-313: fut is drained, the cache is
\* cleared, control returns to the caller.
FlushEnd ==
    /\ pc = "flush"
    /\ FlushDrained
    /\ cache_ref' = <<>>
    /\ pc' = after
    /\ after' = "none"
    /\ UNCHANGED <<state, rxClosed, addrAlive, mailbox, delay_queue,
                   interval_queue, cache_mut, drop_notify, fut, excl, tasks,
                   ops, panics, nch, ndisp, nstart, ndone, onStart, onStop,
                   signaled, dropped>>

\* handle_exclusive without the flush before the exclusive handler.
HandleExclusiveNoFlush(p) ==
    /\ cache_mut' = p
    /\ pc' = "excl"
    /\ ndisp' = Inc(ndisp, p)
    /\ UNCHANGED <<cache_ref, fut, after, nstart>>

\* handle_exclusive, lines 325-327: cache the message, then flush.
HandleExclusive(p) ==
    /\ cache_mut' = p
    /\ BeginFlush("excl")
    /\ ndisp' = Inc(ndisp, p)
    /\ UNCHANGED cache_ref

\* `cache_ref.push(msg)` of handle_message.
PushRef(p) ==
    /\ cache_ref' = Append(cache_ref, p)
    /\ pc' = "try_recv"
    /\ ndisp' = Inc(ndisp, p)
    /\ UNCHANGED <<cache_mut, fut, after, nstart>>

\* The Ref / Mut match of handle_message (also applied to a resolved token).
Dispatch(p) == IF p.kind = "Mut" THEN HandleExclusive(p) ELSE PushRef(p)

\* Nothing dispatched: handle_message returns false, the loop goes on.
Ignore ==
    /\ pc' = "try_recv"
    /\ UNCHANGED <<cache_mut, cache_ref, fut, after, nstart, ndisp>>

\* IntervalMessage::clone_actor_message: a new message object of the
\* template's kind, numbered by the clones made of this template so far.
CloneOf(tpl) ==
    Payload(tpl.kind, "interval", tpl.sch,
            Cardinality({q \in DOMAIN ndisp : q.org = "interval" /\ q.sch = tpl.sch}) + 1)

\* The DelayToken arm reading the entry without removing it.
ResolveDelayKeepEntry(tok) ==
    /\ IF SlabContains(delay_queue, tok)
       THEN Dispatch(SlabGet(delay_queue, tok))
       ELSE Ignore
    /\ UNCHANGED delay_queue

\* handle_message, DelayToken arm (lines 362-376).
ResolveDelay(tok) ==
    IF SlabContains(delay_queue, tok)
    THEN /\ delay_queue' = SlabRemove(delay_queue, tok)
         /\ Dispatch(SlabGet(delay_queue, tok))
    ELSE /\ Ignore
         /\ UNCHANGED delay_queue

\* handle_message, IntervalToken arm (lines 377-394).
ResolveInterval(tok) ==
    /\ IF SlabContains(interval_queue, tok)
       THEN Dispatch(CloneOf(SlabGet(interval_queue, tok)))
       ELSE Ignore
    /\ UNCHANGED interval_queue

\* handle_delay_cancel removing without the contains check.
HandleDelayCancelUnchecked(tok) ==
    /\ delay_queue' = SlabRemove(delay_queue, tok)
    /\ Ignore

\* handle_delay_cancel
HandleDelayCancel(tok) ==
    /\ delay_queue' = IF SlabContains(delay_queue, tok)
                      THEN SlabRemove(delay_queue, tok)
                      ELSE delay_queue
    /\ Ignore

\* handle_interval_cancel leaving the entry in place.
HandleIntervalCancelKeepEntry(tok) ==
    /\ UNCHANGED interval_queue
    /\ Ignore

\* handle_interval_cancel
HandleIntervalCancel(tok) ==
    /\ interval_queue' = IF SlabContains(interval_queue, tok)
                         THEN SlabRemove(interval_queue, tok)
                         ELSE interval_queue
    /\ Ignore

\* The ActorState arm returning false for every target state.
HandleStateNeverBreaks(s, ch) ==
    /\ drop_notify' = ch
    /\ dropped' = IF drop_notify # 0 THEN dropped \cup {drop_notify} ELSE dropped
    /\ IF s # "Running" THEN Stop ELSE UNCHANGED <<state, rxClosed>>
    /\ pc' = "try_recv"
    /\ UNCHANGED <<cache_mut, cache_ref, fut, after, nstart, ndisp>>

\* The ActorState arm keeping an already recorded channel and discarding
\* the new one.
HandleStateKeepFirst(s, ch) ==
    /\ drop_notify' = IF drop_notify # 0 THEN drop_notify ELSE ch
    /\ dropped' = IF drop_notify # 0 /\ ch # 0 THEN dropped \cup {ch} ELSE dropped
    /\ IF s # "Running" THEN Stop ELSE UNCHANGED <<state, rxClosed>>
    /\ pc' = IF s = "Stop" THEN "stop_hook" ELSE "try_recv"
    /\ UNCHANGED <<cache_mut, cache_ref, fut, after, nstart, ndisp>>

\* handle_message, ActorState arm (lines 397-404): the channel replaces the
\* recorded one (whose sender is thereby dropped), stop() unless the target
\* is Running, and the loop breaks when the target is Stop.
HandleState(s, ch) ==
    /\ drop_notify' = ch
    /\ dropped' = IF drop_notify # 0 THEN dropped \cup {drop_notify} ELSE dropped
    /\ IF s # "Running" THEN Stop ELSE UNCHANGED <<state, rxClosed>>
    /\ pc' = IF s = "Stop" THEN "stop_hook" ELSE "try_recv"
    /\ UNCHANGED <<cache_mut, cache_ref, fut, after, nstart, ndisp>>

\* handle_message
HandleMessage(msg) ==
    \/ /\ msg.t \in {"Mut", "Ref"}
       /\ Dispatch(msg.p)
       /\ UNCHANGED <<delay_queue, interval_queue, drop_notify, dropped, state, rxClosed>>
    \/ /\ msg.t = "DelayToken"
       /\ ResolveDelay(msg.tok)
       /\ UNCHANGED <<interval_queue, drop_notify, dropped, state, rxClosed>>
    \/ /\ msg.t = "IntervalToken"
       /\ ResolveInterval(msg.tok)
       /\ UNCHANGED <<delay_queue, drop_notify, dropped, state, rxClosed>>
    \/ /\ msg.t = "DelayTokenCancel"
       /\ HandleDelayCancel(msg.tok)
       /\ UNCHANGED <<interval_queue, drop_notify, dropped, state, rxClosed>>
    \/ /\ msg.t = "IntervalTokenCancel"
       /\ HandleIntervalCancel(msg.tok)
       /\ UNCHANGED <<delay_queue, drop_notify, dropped, state, rxClosed>>
    \/ /\ msg.t = "ActorState"
       /\ HandleState(msg.s, msg.tok)
       /\ UNCHANGED <<delay_queue, interval_queue>>

\* -------------------------------------------------------------- driver
\* ContextWithActor::first_run, line 464: the start hook begins.
FirstRun ==
    /\ pc = "first_run"
    /\ pc' = "on_start"
    /\ onStart' = onStart + 1
    /\ UNCHANGED <<state, rxClosed, addrAlive, mailbox, delay_queue,
                   interval_queue, cache_mut, cache_ref, drop_notify, fut,
                   excl, after, tasks, ops, panics, nch, ndisp, nstart,
                   ndone, onStop, signaled, dropped>>

\* first_run, lines 464-467: the start hook completed; state becomes
\* Running and run() is entered.
OnStartDone ==
    /\ pc = "on_start"
    /\ state' = "Running"
    /\ pc' = "run"
    /\ UNCHANGED <<rxClosed, addrAlive, mailbox, delay_queue, interval_queue,
                   cache_mut, cache_ref, drop_notify, fut, excl, after, tasks,
                   ops, panics, nch, ndisp, nstart, ndone, onStart, onStop,
                   signaled, dropped>>

\* run, lines 477-481: a fresh fut, then the cached concurrent messages.
RunEntry ==
    /\ pc = "run"
    /\ BeginFlush("pre_mut")
    /\ UNCHANGED <<state, rxClosed, addrAlive, mailbox, delay_queue,
                   interval_queue, cache_mut, cache_ref, drop_notify, excl,
                   tasks, ops, panics, nch, ndisp, ndone, onStart, onStop,
                   signaled, dropped>>

\* The exclusive handler started from a copy: the message stays in the slot.
TakeExclusiveKeepSlot ==
    /\ excl' = excl \cup {cache_mut}
    /\ cache_mut' = cache_mut
    /\ nstart' = Inc(nstart, cache_mut)
    /\ pc' = "excl_run"

\* `cache_mut.take()` followed by handle_wait: the exclusive handler starts.
TakeExclusive ==
    /\ excl' = excl \cup {cache_mut}
    /\ cache_mut' = NoP
    /\ nstart' = Inc(nstart, cache_mut)
    /\ pc' = "excl_run"

\* run, lines 483-485: a cached exclusive message is handled first.
PreMut ==
    /\ pc = "pre_mut"
    /\ IF cache_mut # NoP
       THEN TakeExclusive
       ELSE pc' = "try_recv" /\ UNCHANGED <<excl, cache_mut, nstart>>
    /\ UNCHANGED <<state, rxClosed, addrAlive, mailbox, delay_queue,
                   interval_queue, cache_ref, drop_notify, fut, after, tasks,
                   ops, panics, nch, ndisp, ndone, onStart, onStop, signaled,
                   dropped>>

\* handle_exclusive, line 329.
ExclStart ==
    /\ pc = "excl"
    /\ TakeExclusive
    /\ UNCHANGED <<state, rxClosed, addrAlive, mailbox, delay_queue,
                   interval_queue, cache_ref, drop_notify, fut, after, tasks,
                   ops, panics, nch, ndisp, ndone, onStart, onStop, signaled,
                   dropped>>

\* run, lines 489-498: try_recv() yields a message.
TryRecvOk ==
    /\ pc = "try_recv"
    /\ mailbox # <<>>
    /\ mailbox' = Tail(mailbox)
    /\ HandleMessage(Head(mailbox))
    /\ UNCHANGED <<addrAlive, excl, tasks, ops, panics, nch, ndone, onStart,
                   onStop, signaled>>

\* The Empty branch of run() without its flush: the driver blocks on recv()
\* with the concurrent cache as it is.
TryRecvEmptyNoFlush ==
    /\ pc = "try_recv"
    /\ mailbox = <<>>
    /\ ~ChanClosed
    /\ pc' = "recv"
    /\ UNCHANGED <<state, rxClosed, addrAlive, mailbox, delay_queue,
                   interval_queue, cache_mut, cache_ref, drop_notify, fut,
                   excl, after, tasks, ops, panics, nch, ndisp, nstart, ndone,
                   onStart, onStop, signaled, dropped>>

\* run, lines 500-502: try_recv() yields Empty; flush, then block.
TryRecvEmpty ==
    /\ pc = "try_recv"
    /\ mailbox = <<>>
    /\ ~ChanClosed
    /\ BeginFlush("recv")
    /\ UNCHANGED <<state, rxClosed, addrAlive, mailbox, delay_queue,
                   interval_queue, cache_mut, cache_ref, drop_notify, excl,
                   tasks, ops, panics, nch, ndisp, ndone, onStart, onStop,
                   signaled, dropped>>

\* A receiver that reports Closed as soon as it is closed, buffered
\* messages or not.
TryRecvClosedEager ==
    /\ pc = "try_recv"
    /\ ChanClosed
    /\ Stop
    /\ BeginFlush("stop_hook")
    /\ UNCHANGED <<addrAlive, mailbox, delay_queue, interval_queue, cache_mut,
                   cache_ref, drop_notify, excl, tasks, ops, panics, nch,
                   ndisp, ndone, onStart, onStop, signaled, dropped>>

\* run, lines 525-533: try_recv() yields Closed; stop(), flush, break.
TryRecvClosed ==
    /\ pc = "try_recv"
    /\ mailbox = <<>>
    /\ ChanClosed
    /\ Stop
    /\ BeginFlush("stop_hook")
    /\ UNCHANGED <<addrAlive, mailbox, delay_queue, interval_queue, cache_mut,
                   cache_ref, drop_notify, excl, tasks, ops, panics, nch,
                   ndisp, ndone, onStart, onStop, signaled, dropped>>

\* run, lines 505-521: recv() yields a message.
RecvSome ==
    /\ pc = "recv"
    /\ mailbox # <<>>
    /\ mailbox' = Tail(mailbox)
    /\ HandleMessage(Head(mailbox))
    /\ UNCHANGED <<addrAlive, excl, tasks, ops, panics, nch, ndone, onStart,
                   onStop, signaled>>

\* run, line 522: recv() yields None; break.
RecvNone ==
    /\ pc = "recv"
    /\ mailbox = <<>>
    /\ ChanClosed
    /\ pc' = "stop_hook"
    /\ UNCHANGED <<state, rxClosed, addrAlive, mailbox, delay_queue,
                   interval_queue, cache_mut, cache_ref, drop_notify, fut,
                   excl, after, tasks, ops, panics, nch, ndisp, nstart, ndone,
                   onStart, onStop, signaled, dropped>>

\* run, line 537: the stop hook begins.
OnStopStart ==
    /\ pc = "stop_hook"
    /\ pc' = "on_stop"
    /\ onStop' = onStop + 1
    /\ UNCHANGED <<state, rxClosed, addrAlive, mailbox, delay_queue,
                   interval_queue, cache_mut, cache_ref, drop_notify, fut,
                   excl, after, tasks, ops, panics, nch, ndisp, nstart, ndone,
                   onStart, signaled, dropped>>

\* The acknowledgement channels carried by messages still in the mailbox.
PendingChannels == {mailbox[i].tok : i \in {j \in DOMAIN mailbox : mailbox[j].t = "ActorState"}} \ {0}

\* Drop for ContextWithActor, lines 443-445, and the drop of its fields:
\* the recorded channel is signaled; the Context, its receiver and the
\* messages still buffered go away.
Teardown ==
    /\ signaled' = IF drop_notify # 0 THEN Inc(signaled, drop_notify) ELSE signaled
    /\ drop_notify' = 0
    /\ dropped' = dropped \cup PendingChannels
    /\ mailbox' = <<>>
    /\ cache_ref' = <<>>
    /\ cache_mut' = NoP
    /\ pc' = "done"
    /\ UNCHANGED <<state, rxClosed, delay_queue, interval_queue>>

\* A recovery that spawns first_run() instead of run().
RecoverThroughFirstRun ==
    /\ cache_ref' = SelectSeq(cache_ref, LAMBDA p : ~Finished(p))
    /\ pc' = "first_run"
    /\ UNCHANGED <<state, rxClosed, mailbox, delay_queue, interval_queue,
                   cache_mut, drop_notify, signaled, dropped>>

\* Drop for ContextWithActor, lines 436-442: the driver is rebuilt from the
\* same actor, context and caches, unfinished cached messages are kept,
\* and a new task calls run().
Recover ==
    /\ cache_ref' = SelectSeq(cache_ref, LAMBDA p : ~Finished(p))
    /\ pc' = "run"
    /\ UNCHANGED <<state, rxClosed, mailbox, delay_queue, interval_queue,
                   cache_mut, drop_notify, signaled, dropped>>

\* The recovery test without the state check.
ShouldRecoverAnyState(panicking) == panicking

\* Drop for ContextWithActor, line 434.
ShouldRecover(panicking) == panicking /\ state = "Running"

\* Drop for ContextWithActor; fut and the awaited handler are locals of the
\* dropped run() future.
DropDriver(panicking) ==
    /\ IF ShouldRecover(panicking) THEN Recover ELSE Teardown
    /\ fut' = {}
    /\ excl' = {}
    /\ after' = "none"

\* run returns after the stop hook; the driver is dropped.
OnStopDone ==
    /\ pc = "on_stop"
    /\ DropDriver(FALSE)
    /\ UNCHANGED <<addrAlive, tasks, ops, panics, nch, ndisp, nstart, ndone,
                   onStart, onStop>>

\* ------------------------------------------------------------ handlers
\* A concurrent handler future in fut resolves (line 307).
HandlerDone(p) ==
    /\ pc = "flush"
    /\ p \in fut
    /\ fut' = fut \ {p}
    /\ ndone' = Inc(ndone, p)
    /\ UNCHANGED <<state, rxClosed, addrAlive, mailbox, delay_queue,
                   interval_queue, cache_mut, cache_ref, drop_notify, excl,
                   pc, after, tasks, ops, panics, nch, ndisp, nstart, onStart,
                   onStop, signaled, dropped>>

\* The awaited exclusive handler resolves (lines 329, 484); back to the loop.
ExclDone(p) ==
    /\ pc = "excl_run"
    /\ p \in excl
    /\ excl' = excl \ {p}
    /\ ndone' = Inc(ndone, p)
    /\ pc' = "try_recv"
    /\ UNCHANGED <<state, rxClosed, addrAlive, mailbox, delay_queue,
                   interval_queue, cache_mut, cache_ref, drop_notify, fut,
                   after, tasks, ops, panics, nch, ndisp, nstart, onStart,
                   onStop, signaled, dropped>>

\* Actor code is executing: a hook or at least one handler future.
InActorCode ==
    \/ pc \in {"on_start", "excl_run", "on_stop"}
    \/ pc = "flush" /\ fut # {}

\* A handler or hook panics; the unwinding drops the driver.
Panic ==
    /\ InActorCode
    /\ panics < MaxPanics
    /\ panics' = panics + 1
    /\ DropDriver(TRUE)
    /\ UNCHANGED <<addrAlive, tasks, ops, nch, ndisp, nstart, ndone, onStart,
                   onStop>>

\* A handler or hook calls Context::stop.
CtxStop ==
    /\ InActorCode
    /\ ~(rxClosed /\ state = "StopGraceful")
    /\ Stop
    /\ UNCHANGED <<addrAlive, mailbox, delay_queue, interval_queue, cache_mut,
                   cache_ref, drop_notify, fut, excl, pc, after, tasks, ops,
                   panics, nch, ndisp, nstart, ndone, onStart, onStop,
                   signaled, dropped>>

\* ---------------------------------------------------- background tasks
\* A task spawned by later / interval / stream, with the ContextJoinHandle
\* that was returned for it.  sent / cancels count the tokens or items the
\* task put into the mailbox, pos the timer periods elapsed or stream items
\* taken, `at` the task's position when its handle was invoked, `open`
\* whether the receiver was still open when the task was spawned.
NewTask(ty, k, tok) ==
    [type |-> ty, kind |-> k, token |-> tok, st |-> "select", handle |-> "held",
     sent |-> 0, cancels |-> 0, pos |-> 0, pend |-> NoMsg, then |-> "none",
     at |-> "none", sentAt |-> 0, open |-> ~rxClosed]

\* The task record after message m went into the mailbox.
Sent(t, m, next) ==
    [t EXCEPT !.st = next, !.pend = NoMsg, !.then = "none",
              !.sent = IF m.t \in {"DelayTokenCancel", "IntervalTokenCancel"} THEN @ ELSE @ + 1,
              !.cancels = IF m.t \in {"DelayTokenCancel", "IntervalTokenCancel"} THEN @ + 1 ELSE @]

\* `weak_tx._send(m).await` polled for the first time by task i (whose
\* record is t by now): an error ends the task, a full mailbox leaves the
\* send pending, otherwise m is buffered and the task goes on at `next`.
TaskSend(i, t, m, next) ==
    IF SendFails
    THEN /\ tasks' = [tasks EXCEPT ![i] = [t EXCEPT !.st = "done"]]
         /\ UNCHANGED mailbox
    ELSE IF HasRoom
         THEN /\ mailbox' = Append(mailbox, m)
              /\ tasks' = [tasks EXCEPT ![i] = Sent(t, m, next)]
         ELSE /\ tasks' = [tasks EXCEPT ![i] = [t EXCEPT !.st = "sending", !.pend = m, !.then = next]]
              /\ UNCHANGED mailbox

\* What no background task touches.
DriverUnchanged ==
    UNCHANGED <<state, rxClosed, addrAlive, delay_queue, interval_queue,
                cache_mut, cache_ref, drop_notify, fut, excl, pc, after,
                panics, nch, ndisp, nstart, ndone, onStart, onStop, signaled,
                dropped>>

\* A pending `_send` is polled again: room was made, or the channel closed.
SendPending(i) ==
    /\ tasks[i].st = "sending"
    /\ SendFails \/ HasRoom
    /\ TaskSend(i, tasks[i], tasks[i].pend, tasks[i].then)
    /\ UNCHANGED ops
    /\ DriverUnchanged

\* later whose task answers a handle invoked after the fire with a
\* Delay-cancel token all the same.
LaterCancelledAfterFire(i) ==
    /\ tasks[i].type = "later"
    /\ tasks[i].handle = "invoked"
    /\ \/ tasks[i].st = "select"
       \/ tasks[i].st = "done" /\ tasks[i].sent = 1 /\ tasks[i].cancels = 0
    /\ TaskSend(i, tasks[i], TokenMsg("DelayTokenCancel", tasks[i].token), "done")
    /\ UNCHANGED ops
    /\ DriverUnchanged

\* later, lines 271-274: the select sees the handle's signal.
LaterCancelled(i) ==
    /\ tasks[i].type = "later"
    /\ tasks[i].st = "select"
    /\ tasks[i].handle = "invoked"
    /\ TaskSend(i, tasks[i], TokenMsg("DelayTokenCancel", tasks[i].token), "done")
    /\ UNCHANGED ops
    /\ DriverUnchanged

\* later with a select that lets the sleep win over a signalled handle.
LaterElapsedIgnoringCancel(i) ==
    /\ tasks[i].type = "later"
    /\ tasks[i].st = "select"
    /\ TaskSend(i, [tasks[i] EXCEPT !.pos = 1],
                TokenMsg("DelayToken", tasks[i].token), "done")
    /\ UNCHANGED ops
    /\ DriverUnchanged

\* later, lines 275-278: the sleep elapses first (or the handle is gone and
\* the sleep is awaited alone); the Delay token is sent.
LaterElapsed(i) ==
    /\ tasks[i].type = "later"
    /\ tasks[i].st = "select"
    /\ tasks[i].handle # "invoked"
    /\ TaskSend(i, [tasks[i] EXCEPT !.pos = 1],
                TokenMsg("DelayToken", tasks[i].token), "done")
    /\ UNCHANGED ops
    /\ DriverUnchanged

\* interval, lines 229-234: the select sees the handle's signal.
IntervalCancelled(i) ==
    /\ tasks[i].type = "interval"
    /\ tasks[i].st = "select"
    /\ tasks[i].handle = "invoked"
    /\ TaskSend(i, tasks[i], TokenMsg("IntervalTokenCancel", tasks[i].token), "done")
    /\ UNCHANGED ops
    /\ DriverUnchanged

\* interval whose task returns after the first send once the handle is
\* dropped, instead of entering the second loop.
IntervalElapsedNoSecondLoop(i) ==
    /\ tasks[i].type = "interval"
    /\ \/ tasks[i].st = "select" /\ tasks[i].handle # "invoked"
       \/ tasks[i].st = "sleep2"
    /\ ops.msg > 0
    /\ ops' = [ops EXCEPT !.msg = @ - 1]
    /\ TaskSend(i, [tasks[i] EXCEPT !.pos = @ + 1],
                TokenMsg("IntervalToken", tasks[i].token),
                IF tasks[i].st = "sleep2" \/ tasks[i].handle = "dropped"
                THEN "done" ELSE "select")
    /\ DriverUnchanged

\* interval, lines 236-248 and 253-258: a period elapses (one unit of the
\* run's budget) and the Interval token is sent; with the handle dropped the task moves to (and stays in)
\* the second loop.
IntervalElapsed(i) ==
    /\ tasks[i].type = "interval"
    /\ \/ tasks[i].st = "select" /\ tasks[i].handle # "invoked"
       \/ tasks[i].st = "sleep2"
    /\ ops.msg > 0
    /\ ops' = [ops EXCEPT !.msg = @ - 1]
    /\ TaskSend(i, [tasks[i] EXCEPT !.pos = @ + 1],
                TokenMsg("IntervalToken", tasks[i].token),
                IF tasks[i].st = "sleep2" \/ tasks[i].handle = "dropped"
                THEN "sleep2" ELSE "select")
    /\ DriverUnchanged

\* stream, line 184: the select sees the handle's signal; the task returns.
StreamCancelled(i) ==
    /\ tasks[i].type = "stream"
    /\ tasks[i].st = "select"
    /\ tasks[i].handle = "invoked"
    /\ tasks' = [tasks EXCEPT ![i].st = "done"]
    /\ UNCHANGED <<mailbox, ops>>
    /\ DriverUnchanged

\* stream whose dropped-handle branch discards the item it awaited instead
\* of sending it.
StreamNextLosesOnDrop(i) ==
    /\ tasks[i].type = "stream"
    /\ \/ tasks[i].st = "select" /\ tasks[i].handle # "invoked"
       \/ tasks[i].st = "iter"
    /\ IF tasks[i].pos < StreamLen
       THEN /\ ops.msg > 0
            /\ ops' = [ops EXCEPT !.msg = @ - 1]
            /\ IF tasks[i].st = "select" /\ tasks[i].handle = "dropped"
               THEN /\ tasks' = [tasks EXCEPT ![i].pos = @ + 1, ![i].st = "iter"]
                    /\ UNCHANGED mailbox
               ELSE TaskSend(i, [tasks[i] EXCEPT !.pos = @ + 1],
                             MsgOf(Payload(tasks[i].kind, "stream", i, tasks[i].pos + 1)),
                             IF tasks[i].st = "iter" THEN "iter" ELSE "select")
       ELSE /\ tasks' = [tasks EXCEPT ![i].st = "done"]
            /\ UNCHANGED <<mailbox, ops>>
    /\ DriverUnchanged

\* stream, lines 186-202 and 207-212: the stream yields its next item,
\* which is wrapped and sent, or ends; with the handle dropped the task
\* moves to (and stays in) the second loop.
StreamNext(i) ==
    /\ tasks[i].type = "stream"
    /\ \/ tasks[i].st = "select" /\ tasks[i].handle # "invoked"
       \/ tasks[i].st = "iter"
    /\ IF tasks[i].pos < StreamLen
       THEN /\ ops.msg > 0
            /\ ops' = [ops EXCEPT !.msg = @ - 1]
            /\ TaskSend(i, [tasks[i] EXCEPT !.pos = @ + 1],
                        MsgOf(Payload(tasks[i].kind, "stream", i, tasks[i].pos + 1)),
                        IF tasks[i].st = "iter" \/ tasks[i].handle = "dropped"
                        THEN "iter" ELSE "select")
       ELSE /\ tasks' = [tasks EXCEPT ![i].st = "done"]
            /\ UNCHANGED <<mailbox, ops>>
    /\ DriverUnchanged

\* ContextJoinHandle::cancel
Cancel(i) ==
    /\ tasks[i].handle = "held"
    /\ tasks' = [tasks EXCEPT ![i].handle = "invoked", ![i].at = tasks[i].st,
                              ![i].sentAt = tasks[i].sent]
    /\ UNCHANGED <<mailbox, ops>>
    /\ DriverUnchanged

\* The ContextJoinHandle is dropped without cancel().
DropHandle(i) ==
    /\ tasks[i].handle = "held"
    /\ tasks' = [tasks EXCEPT ![i].handle = "dropped"]
    /\ UNCHANGED <<mailbox, ops>>
    /\ DriverUnchanged

\* ------------------------------------------- scheduling by actor code
\* What a scheduling call leaves alone.
ScheduleUnchanged ==
    UNCHANGED <<state, rxClosed, addrAlive, mailbox, cache_mut, cache_ref,
                drop_notify, fut, excl, pc, after, panics, nch, ndisp, nstart,
                ndone, onStart, onStop, signaled, dropped>>

\* Context::later, called by run_later (k = Ref) / run_wait_later (k = Mut).
later(k) ==
    /\ InActorCode
    /\ ops.sch > 0
    /\ ops' = [ops EXCEPT !.sch = @ - 1]
    /\ delay_queue' = SlabInsert(delay_queue, Payload(k, "delay", Len(tasks) + 1, 0))
    /\ tasks' = Append(tasks, NewTask("later", k, SlabKey(delay_queue)))
    /\ UNCHANGED interval_queue
    /\ ScheduleUnchanged

\* Context::interval, called by run_interval / run_wait_interval.
interval(k) ==
    /\ InActorCode
    /\ ops.sch > 0
    /\ ops' = [ops EXCEPT !.sch = @ - 1]
    /\ interval_queue' = SlabInsert(interval_queue, Payload(k, "interval", Len(tasks) + 1, 0))
    /\ tasks' = Append(tasks, NewTask("interval", k, SlabKey(interval_queue)))
    /\ UNCHANGED delay_queue
    /\ ScheduleUnchanged

\* Context::stream, called by add_stream / add_wait_stream.
stream(k) ==
    /\ InActorCode
    /\ ops.sch > 0
    /\ ops' = [ops EXCEPT !.sch = @ - 1]
    /\ tasks' = Append(tasks, NewTask("stream", k, 0))
    /\ UNCHANGED <<delay_queue, interval_queue>>
    /\ ScheduleUnchanged

\* --------------------------------------------------- address holders
\* What a sender leaves alone.
SenderUnchanged ==
    UNCHANGED <<state, rxClosed, delay_queue, interval_queue, cache_mut,
                cache_ref, drop_notify, fut, excl, pc, after, tasks, panics,
                ndisp, nstart, ndone, onStart, onStop, signaled, dropped>>

\* A message of kind k is sent through an address and buffered.
Send(k) ==
    /\ ~SendFails
    /\ HasRoom
    /\ ops.msg > 0
    /\ ops' = [ops EXCEPT !.msg = @ - 1]
    /\ mailbox' = Append(mailbox, MsgOf(Payload(k, "direct", 0, ops.msg)))
    /\ UNCHANGED <<addrAlive, nch>>
    /\ SenderUnchanged

\* A lifecycle-transition request is sent, with or without a channel.
SendState(s, withCh) ==
    /\ ~SendFails
    /\ HasRoom
    /\ ops.msg > 0
    /\ ops' = [ops EXCEPT !.msg = @ - 1]
    /\ nch' = IF withCh THEN nch + 1 ELSE nch
    /\ mailbox' = Append(mailbox, StateMsg(s, IF withCh THEN nch + 1 ELSE 0))
    /\ UNCHANGED addrAlive
    /\ SenderUnchanged

\* The last strong address is dropped.
DropAddr ==
    /\ addrAlive
    /\ addrAlive' = FALSE
    /\ UNCHANGED <<mailbox, ops, nch>>
    /\ SenderUnchanged

\* ------------------------------------------------------ specification
\* The state after Context::new and ContextWithActor::new, with a budget of
\* m sends, interval periods and stream items and of c scheduling calls.
InitWith(m, c) ==
    /\ state = "Stop"
    /\ rxClosed = FALSE
    /\ addrAlive = TRUE
    /\ mailbox = <<>>
    /\ delay_queue = SlabNew
    /\ interval_queue = SlabNew
    /\ cache_mut = NoP
    /\ cache_ref = <<>>
    /\ drop_notify = 0
    /\ fut = {}
    /\ excl = {}
    /\ pc = "first_run"
    /\ after = "none"
    /\ tasks = <<>>
    /\ ops = [msg |-> m, sch |-> c]
    /\ panics = 0
    /\ nch = 0
    /\ ndisp = Empty
    /\ nstart = Empty
    /\ ndone = Empty
    /\ onStart = 0
    /\ onStop = 0
    /\ signaled = Empty
    /\ dropped = {}

Kinds == {"Ref", "Mut"}

States == {"Running", "StopGraceful", "Stop"}

Driver ==
    \/ FirstRun
    \/ OnStartDone
    \/ RunEntry
    \/ PreMut
    \/ ExclStart
    \/ TryRecvOk
    \/ TryRecvEmpty
    \/ TryRecvClosed
    \/ RecvSome
    \/ RecvNone
    \/ FlushEnd
    \/ OnStopStart
    \/ OnStopDone

Handlers ==
    \/ \E p \in fut : HandlerDone(p)
    \/ \E p \in excl : ExclDone(p)

Handles ==
    \/ \E i \in DOMAIN tasks : Cancel(i)
    \/ \E i \in DOMAIN tasks : DropHandle(i)

\* The actor, its address holders, lifecycle requests and panics.
Init == InitWith(MaxOps, 0)

Next ==
    \/ Driver
    \/ Handlers
    \/ Panic
    \/ CtxStop
    \/ \E k \in Kinds : Send(k)
    \/ \E s \in States, w \in BOOLEAN : SendState(s, w)
    \/ DropAddr

Spec == Init /\ [][Next]_vars

\* The actor with direct sends, one-shot and interval schedules whose
\* handles are kept, stop() and panics.
SchedInit == InitWith(MaxSchedOps, MaxSchedules)

SchedNext ==
    \/ Driver
    \/ Handlers
    \/ Panic
    \/ CtxStop
    \/ \E k \in Kinds : Send(k)
    \/ \E k \in Kinds : later(k)
    \/ \E k \in Kinds : interval(k)
    \/ \E i \in DOMAIN tasks : SendPending(i)
    \/ \E i \in DOMAIN tasks : LaterElapsed(i)
    \/ \E i \in DOMAIN tasks : IntervalElapsed(i)

SchedSpec == SchedInit /\ [][SchedNext]_vars

\* The actor with one-shot schedules and their handles, direct sends and
\* stop().
DelayInit == InitWith(MaxDelayOps, MaxDelays)

DelayNext ==
    \/ Driver
    \/ Handlers
    \/ CtxStop
    \/ \E k \in Kinds : Send(k)
    \/ \E k \in Kinds : later(k)
    \/ \E i \in DOMAIN tasks : SendPending(i)
    \/ \E i \in DOMAIN tasks : LaterCancelled(i)
    \/ \E i \in DOMAIN tasks : LaterElapsed(i)
    \/ Handles

DelaySpec == DelayInit /\ [][DelayNext]_vars

\* The actor with interval schedules and their handles.
IntervalInit == InitWith(MaxPeriods, MaxIntervals)

IntervalNext ==
    \/ Driver
    \/ Handlers
    \/ CtxStop
    \/ DropAddr
    \/ \E k \in Kinds : interval(k)
    \/ \E i \in DOMAIN tasks : SendPending(i)
    \/ \E i \in DOMAIN tasks : IntervalCancelled(i)
    \/ \E i \in DOMAIN tasks : IntervalElapsed(i)
    \/ Handles

IntervalSpec == IntervalInit /\ [][IntervalNext]_vars

\* The actor with attached streams and their handles.
StreamInit == InitWith(MaxItems, MaxStreams)

StreamNext_ ==
    \/ Driver
    \/ Handlers
    \/ CtxStop
    \/ DropAddr
    \/ \E k \in Kinds : stream(k)
    \/ \E i \in DOMAIN tasks : SendPending(i)
    \/ \E i \in DOMAIN tasks : StreamCancelled(i)
    \/ \E i \in DOMAIN tasks : StreamNext(i)
    \/ Handles

StreamSpec == StreamInit /\ [][StreamNext_]_vars

\* The actor with one-shot schedules made by run_wait_later and interval
\* schedules made by run_interval, their handles invoked at any time, and
\* the address dropped at any time.
TokenInit == InitWith(MaxTokenPeriods, MaxTokenSchedules)

TokenNext ==
    \/ Driver
    \/ Handlers
    \/ DropAddr
    \/ later("Mut")
    \/ interval("Ref")
    \/ \E i \in DOMAIN tasks : SendPending(i)
    \/ \E i \in DOMAIN tasks : LaterCancelled(i)
    \/ \E i \in DOMAIN tasks : LaterElapsed(i)
    \/ \E i \in DOMAIN tasks : IntervalCancelled(i)
    \/ \E i \in DOMAIN tasks : IntervalElapsed(i)
    \/ \E i \in DOMAIN tasks : Cancel(i)

TokenSpec == TokenInit /\ [][TokenNext]_vars

\* The actor with one-shot schedules made by run_later and interval
\* schedules made by run_wait_interval (TokenSpec has the other kind of
\* each), their handles invoked at any time, and handlers that may call
\* stop().
ResolveInit == InitWith(MaxResolvePeriods, MaxResolveSchedules)

ResolveNext ==
    \/ Driver
    \/ Handlers
    \/ CtxStop
    \/ later("Ref")
    \/ interval("Mut")
    \/ \E i \in DOMAIN tasks : SendPending(i)
    \/ \E i \in DOMAIN tasks : LaterCancelled(i)
    \/ \E i \in DOMAIN tasks : LaterElapsed(i)
    \/ \E i \in DOMAIN tasks : IntervalCancelled(i)
    \/ \E i \in DOMAIN tasks : IntervalElapsed(i)
    \/ \E i \in DOMAIN tasks : Cancel(i)

ResolveSpec == ResolveInit /\ [][ResolveNext]_vars

\* The runtime keeps polling the driver task while it can make a step, and
\* every started handler future eventually resolves.
Fairness == WF_vars(Driver) /\ WF_vars(Handlers)

\* The actor with direct sends only: no stop request, no panic.
LiveNext ==
    \/ Driver
    \/ Handlers
    \/ \E k \in Kinds : Send(k)
    \/ DropAddr

LiveSpec == Init /\ [][LiveNext]_vars /\ Fairness

\* The actor of Spec, polled fairly.
FairSpec == Spec /\ Fairness

\* -------------------------------------------------------------- claims
\* The concurrent messages handed to the cache so far.
PulledRefs == {p \in DOMAIN ndisp : p.kind = "Ref"}

\* C1: an exclusive handler never executes while a concurrent handler is in
\* flight, and at most one exclusive handler executes at a time, whatever
\* the source of the exclusive message (direct, delay token, interval
\* token, or the cached slot after a panic recovery).
C1_ExclusiveAlone ==
    /\ Cardinality(excl) <= 1
    /\ excl # {} => fut = {}
    /\ \A p \in excl : p.kind = "Mut"
    /\ \A p \in fut : p.kind = "Ref"

\* An exclusive message resolved from a delay token runs from the cached
\* slot after a panic in the flush before it, the flushed handler done.
C1_Witness ==
    /\ panics = 1
    /\ \E m \in excl : m.org = "delay"
    /\ \E r \in DOMAIN ndone : r.kind = "Ref" /\ nstart[r] = 2

\* C2: when an exclusive handler runs, every concurrent message the driver
\* pulled (or resolved from a token) before it has completed its handler.
C2_RefsDoneBeforeMut ==
    excl # {} => \A r \in PulledRefs : Cnt(ndone, r) >= 1

\* An interval-resolved exclusive message runs after a direct concurrent
\* message pulled before it has completed.
C2_Witness ==
    /\ \E m \in excl : m.org = "interval"
    /\ \E r \in PulledRefs : r.org = "direct" /\ Cnt(ndone, r) = 1

\* The message objects an address holder can send.
DirectPayloads == {Payload(k, "direct", 0, n) : k \in Kinds, n \in 1..MaxOps}

InMailbox(p) == \E i \in DOMAIN mailbox : mailbox[i].p = p

\* C3: with no stop request and no panic, under fair scheduling every
\* concurrent message delivered to the mailbox eventually has its handler
\* run to completion.
C3_RefsEventuallyHandled ==
    \A p \in {q \in DirectPayloads : q.kind = "Ref"} :
        InMailbox(p) ~> (Cnt(ndone, p) >= 1)

\* The driver waits on an idle, open mailbox with two concurrent messages
\* handled and nothing left in the cache.
C3_Witness ==
    /\ pc = "recv"
    /\ mailbox = <<>>
    /\ ~ChanClosed
    /\ cache_ref = <<>>
    /\ Cardinality({p \in DOMAIN ndone : p.kind = "Ref"}) >= 2


LaterTasks == {i \in DOMAIN tasks : tasks[i].type = "later"}

\* The message object stored in delay_queue by the i-th scheduling call.
DelayPayload(i) == Payload(tasks[i].kind, "delay", i, 0)

\* A token message of type t for slab key tok is buffered in the mailbox.
TokenBuffered(t, tok) == \E j \in DOMAIN mailbox : mailbox[j].t = t /\ mailbox[j].tok = tok

\* C4: a one-shot schedule whose handle is invoked before the timer task
\* saw the delay elapse never has its message dispatched: the task sends no
\* Delay token, its only send is the Delay-cancel token (which goes into the
\* mailbox unless the mailbox is closed), and once the driver has handled
\* that token the entry is gone from delay_queue.  A handle invoked after
\* the schedule fired changes nothing: no Delay-cancel token is produced.
C4_DelayCancel ==
    \A i \in LaterTasks :
        LET t == tasks[i]
            p == DelayPayload(i)
        IN  /\ (t.handle = "invoked" /\ t.at = "select") =>
                /\ t.sent = 0
                /\ t.pos = 0
                /\ t.pend.t # "DelayToken"
                /\ Cnt(ndisp, p) = 0
                /\ Cnt(nstart, p) = 0
                /\ t.st = "done" => (t.cancels = 1 \/ SendFails)
                /\ (/\ t.cancels = 1
                    /\ ~TokenBuffered("DelayTokenCancel", t.token)
                    /\ pc # "done") => p \notin SlabVals(delay_queue)
            /\ (t.handle = "invoked" /\ t.at \in {"sending", "done"}) =>
                /\ t.cancels = 0
                /\ t.pend.t # "DelayTokenCancel"
                /\ t.pos = 1

\* A handle was invoked in time, the driver handled the Delay-cancel token
\* and is waiting for messages again.
C4_Witness ==
    \E i \in LaterTasks :
        /\ tasks[i].handle = "invoked"
        /\ tasks[i].at = "select"
        /\ tasks[i].cancels = 1
        /\ DelayPayload(i) \notin SlabVals(delay_queue)
        /\ pc = "recv"
        /\ state = "Running"

\* C5: a one-shot schedule whose handle is never invoked sends exactly one
\* Delay token and no cancel token; the driver resolves the token by
\* consuming the delay_queue entry and dispatches the stored message once,
\* as a concurrent message for run_later and an exclusive one for
\* run_wait_later; its handler starts once and completes once.
C5_DelayFiresOnce ==
    \A i \in LaterTasks :
        LET t == tasks[i]
            p == DelayPayload(i)
        IN  t.handle # "invoked" =>
                /\ t.sent <= 1
                /\ t.cancels = 0
                /\ t.pend.t # "DelayTokenCancel"
                /\ t.st = "done" => (t.sent = 1 \/ SendFails)
                /\ Cnt(ndisp, p) <= t.sent
                /\ Cnt(ndisp, p) = 0 => p \in SlabVals(delay_queue)
                /\ Cnt(ndisp, p) = 1 => p \notin SlabVals(delay_queue)
                /\ (/\ t.sent = 1
                    /\ ~TokenBuffered("DelayToken", t.token)
                    /\ pc # "done") => Cnt(ndisp, p) = 1
                /\ Cnt(nstart, p) <= 1
                /\ Cnt(ndone, p) <= Cnt(nstart, p)
                /\ (p \in fut \/ p \in Range(cache_ref)) => t.kind = "Ref"
                /\ (p \in excl \/ p = cache_mut) => t.kind = "Mut"
                /\ (Cnt(ndisp, p) = 1 /\ pc = "recv") =>
                       (Cnt(nstart, p) = 1 /\ Cnt(ndone, p) = 1)

\* A schedule whose handle was dropped fired, and its exclusive handler
\* has completed; the driver waits for messages.
C5_Witness ==
    \E i \in LaterTasks :
        /\ tasks[i].handle = "dropped"
        /\ tasks[i].kind = "Mut"
        /\ Cnt(ndone, DelayPayload(i)) = 1
        /\ pc = "recv"
        /\ state = "Running"


IntervalTasks == {i \in DOMAIN tasks : tasks[i].type = "interval"}

\* The template stored in interval_queue by the i-th scheduling call.
IntervalTemplate(i) == Payload(tasks[i].kind, "interval", i, 0)

\* The clones of the i-th schedule's template dispatched so far.
Clones(i) == {q \in DOMAIN ndisp : q.org = "interval" /\ q.sch = i}

\* The mailbox positions holding a token message of type t for key tok.
TokenAt(t, tok) == {j \in DOMAIN mailbox : mailbox[j].t = t /\ mailbox[j].tok = tok}

\* No other interval schedule was given the same slab key.
UniqueToken(i) == \A j \in IntervalTasks \ {i} : tasks[j].token # tasks[i].token

\* The task is waiting for mailbox room with an Interval token.
FirePending(t) == t.st = "sending" /\ t.pend.t = "IntervalToken"

\* C6: an interval schedule sends one Interval token per elapsed period and
\* the driver dispatches one clone of the template, of the template's
\* kind, per token.  Once the handle is invoked the task starts no new
\* fire (only a send already waiting for mailbox room still goes through),
\* sends exactly one Interval-cancel token (none if the mailbox is closed)
\* and exits, and no Interval token follows the cancel token.  After the
\* driver handled the cancel token the entry is gone, every token sent
\* before it has been dispatched, and nothing is dispatched afterwards.
C6_IntervalUntilCancelled ==
    \A i \in IntervalTasks :
        LET t == tasks[i]
            tok == tasks[i].token
        IN  /\ t.st # "done" => t.pos = t.sent + (IF FirePending(t) THEN 1 ELSE 0)
            /\ t.cancels <= 1
            /\ t.handle # "invoked" => (t.cancels = 0 /\ t.pend.t # "IntervalTokenCancel")
            /\ Cardinality(Clones(i)) <= t.sent
            /\ \A q \in Clones(i) : q.kind = t.kind /\ ndisp[q] = 1
            /\ (/\ UniqueToken(i)
                /\ IntervalTemplate(i) \in SlabVals(interval_queue)
                /\ pc # "done") =>
                   Cardinality(Clones(i)) + Cardinality(TokenAt("IntervalToken", tok)) = t.sent
            /\ t.handle = "invoked" =>
                /\ t.sent <= t.sentAt + (IF t.at = "sending" THEN 1 ELSE 0)
                /\ t.st \in {"sending", "done"} \/ (t.st = "select" /\ t.cancels = 0)
                /\ t.st = "done" => (t.cancels = 1 \/ SendFails)
                /\ t.cancels = 1 =>
                    /\ t.st = "done"
                    /\ UniqueToken(i) =>
                           \A c \in TokenAt("IntervalTokenCancel", tok) :
                               \A f \in TokenAt("IntervalToken", tok) : f < c
                    /\ (/\ UniqueToken(i)
                        /\ TokenAt("IntervalTokenCancel", tok) = {}
                        /\ pc # "done") =>
                        /\ IntervalTemplate(i) \notin SlabVals(interval_queue)
                        /\ TokenAt("IntervalToken", tok) = {}
                        /\ Cardinality(Clones(i)) = t.sent

\* An interval fired twice, its handle was invoked, the driver handled both
\* fires and then the cancel token, and waits for messages.
C6_Witness ==
    \E i \in IntervalTasks :
        /\ tasks[i].handle = "invoked"
        /\ tasks[i].cancels = 1
        /\ tasks[i].sent = 2
        /\ Cardinality(Clones(i)) = 2
        /\ IntervalTemplate(i) \notin SlabVals(interval_queue)
        /\ pc = "recv"

\* C7: an interval schedule whose handle was dropped is never cancelled: no
\* Interval-cancel token is sent or pending, its entry stays in
\* interval_queue under its key, and its task has ended only if sending into
\* the mailbox fails (the mailbox is closed or the actor is gone).
C7_DroppedIntervalFreeRuns ==
    \A i \in IntervalTasks :
        LET t == tasks[i]
        IN  t.handle = "dropped" =>
                /\ t.cancels = 0
                /\ t.pend.t # "IntervalTokenCancel"
                /\ TokenAt("IntervalTokenCancel", t.token) = {}
                /\ SlabContains(interval_queue, t.token)
                /\ SlabGet(interval_queue, t.token) = IntervalTemplate(i)
                /\ t.st = "done" => SendFails
                /\ t.st # "done" => t.pos = t.sent + (IF FirePending(t) THEN 1 ELSE 0)

\* A dropped-handle interval fired three times, all dispatched, and its
\* task is still sleeping in the second loop.
C7_Witness ==
    \E i \in IntervalTasks :
        /\ tasks[i].handle = "dropped"
        /\ tasks[i].st = "sleep2"
        /\ tasks[i].sent = MaxPeriods
        /\ Cardinality(Clones(i)) = MaxPeriods


StreamTasks == {i \in DOMAIN tasks : tasks[i].type = "stream"}

\* The mailbox positions holding items of the i-th attached stream.
ItemsBuffered(i) == {j \in DOMAIN mailbox : mailbox[j].p.org = "stream" /\ mailbox[j].p.sch = i}

\* The items of the i-th attached stream dispatched so far.
ItemsDispatched(i) == {q \in DOMAIN ndisp : q.org = "stream" /\ q.sch = i}

\* The task is waiting for mailbox room with a stream item.
ItemPending(t) == t.st = "sending" /\ t.pend.p.org = "stream"

\* C8: the items of an attached stream go into the mailbox exactly once
\* and in stream order, each as a message of the kind the stream was
\* attached with; every item taken from the stream is sent (or waiting for
\* mailbox room), also when the handle is dropped meanwhile; with the
\* handle never invoked the task ends only after the last item (or on a
\* failed send); after an invoked handle is observed nothing is forwarded.
C8_StreamForwarding ==
    \A i \in StreamTasks :
        LET t == tasks[i]
            buf == ItemsBuffered(i)
            disp == ItemsDispatched(i)
        IN  /\ \A j, k \in buf : j < k => mailbox[j].p.n < mailbox[k].p.n
            /\ \A q \in disp : \A j \in buf : q.n < mailbox[j].p.n
            /\ {q.n : q \in disp} = 1..Cardinality(disp)
            /\ \A q \in disp : q.kind = t.kind /\ ndisp[q] = 1
            /\ \A j \in buf : mailbox[j].t = t.kind /\ mailbox[j].p.kind = t.kind
            /\ pc # "done" =>
                   {q.n : q \in disp} \cup {mailbox[j].p.n : j \in buf} = 1..t.sent
            /\ Cardinality(disp) + Cardinality(buf) <= t.sent
            /\ t.sent <= StreamLen
            /\ t.st # "done" => t.pos = t.sent + (IF ItemPending(t) THEN 1 ELSE 0)
            /\ (t.handle # "invoked" /\ t.st = "done") =>
                   (t.sent = StreamLen \/ SendFails)
            /\ t.handle = "invoked" =>
                   t.sent <= t.sentAt + (IF t.at = "sending" THEN 1 ELSE 0)
            /\ (t.handle = "invoked" /\ t.st = "done" /\ t.at = "select") =>
                   (t.sent = t.sentAt /\ t.pos = t.sent)

\* A stream attached with add_stream whose handle was dropped has been
\* forwarded to exhaustion, every item handled, and its task has ended.
C8_Witness ==
    \E i \in StreamTasks :
        /\ tasks[i].handle = "dropped"
        /\ tasks[i].kind = "Ref"
        /\ tasks[i].st = "done"
        /\ tasks[i].sent = StreamLen
        /\ \A n \in 1..StreamLen : Cnt(ndone, Payload("Ref", "stream", i, n)) = 1
        /\ ~SendFails


\* The unwinding of a panic raised while the context state is Running.
PanicWhileRunning == panics' = panics + 1 /\ state = "Running"

\* C9: a panic while the state is Running leaves the actor alive: the new
\* driver task enters run() (not first_run, so the start hook is not run
\* again) with the same mailbox, delay_queue, interval_queue, state,
\* cached exclusive message and recorded acknowledgement channel, nothing
\* is signaled, and every message in the mailbox after a panic is
\* eventually dispatched unless the actor is stopped.
C9_PanicRecovery ==
    /\ [][PanicWhileRunning =>
            /\ pc' = "run"
            /\ mailbox' = mailbox
            /\ delay_queue' = delay_queue
            /\ interval_queue' = interval_queue
            /\ state' = state
            /\ rxClosed' = rxClosed
            /\ cache_mut' = cache_mut
            /\ drop_notify' = drop_notify
            /\ signaled' = signaled
            /\ dropped' = dropped
            /\ onStart' = onStart]_vars
    /\ [](onStart <= 1)
    /\ \A p \in DirectPayloads :
           (panics >= 1 /\ InMailbox(p)) ~> (Cnt(ndisp, p) >= 1 \/ state # "Running")

\* After a panic of an exclusive handler (started, never completed) with an
\* acknowledgement channel recorded, a message sent later has been handled
\* and the driver waits for messages with the channel still recorded.
C9_Witness ==
    /\ panics = 1
    /\ state = "Running"
    /\ pc = "recv"
    /\ drop_notify # 0
    /\ signaled = Empty
    /\ onStart = 1
    /\ \E m \in DOMAIN nstart : m.kind = "Mut" /\ Cnt(ndone, m) = 0 /\ m \notin excl
    /\ \E q \in DOMAIN ndone : \E m \in DOMAIN nstart :
           m.kind = "Mut" /\ Cnt(ndone, m) = 0 /\ q.n < m.n /\ ndone[q] = 1


\* The unwinding of a panic raised while the context state is not Running.
PanicWhileNotRunning == panics' = panics + 1 /\ state # "Running"

\* C10: a panic while the state is Stop or StopGraceful ends the actor: the
\* driver is torn down instead of respawned, nothing runs afterwards, and
\* the recorded acknowledgement channel, if any, is signaled then, once.
C10_PanicWhileStopping ==
    /\ [][PanicWhileNotRunning =>
            /\ pc' = "done"
            /\ drop_notify' = 0
            /\ signaled' = IF drop_notify # 0 THEN Inc(signaled, drop_notify) ELSE signaled
            /\ onStop' = onStop
            /\ onStart' = onStart]_vars
    /\ [][pc = "done" =>
            /\ pc' = "done"
            /\ signaled' = signaled
            /\ <<nstart, ndone, ndisp, onStart, onStop>>' = <<nstart, ndone, ndisp, onStart, onStop>>]_vars
    /\ [](\A ch \in DOMAIN signaled : signaled[ch] = 1 /\ ch \notin dropped)

\* A handler called stop() and then panicked with an acknowledgement
\* channel recorded: the actor is gone without a stop hook and the channel
\* is signaled.
C10_Witness ==
    /\ panics = 1
    /\ pc = "done"
    /\ state = "StopGraceful"
    /\ onStop = 0
    /\ \E ch \in DOMAIN signaled : signaled[ch] = 1


\* C11: over the lifetime of the actor the stop hook is started at most
\* once, whatever panics and recoveries happen, and no acknowledgement
\* channel is signaled more than once.
C11_StopHookOnce ==
    /\ onStop <= 1
    /\ \A ch \in DOMAIN signaled : signaled[ch] <= 1


\* The driver takes a lifecycle-transition request from the mailbox.
TakesRequest ==
    /\ pc \in {"try_recv", "recv"}
    /\ mailbox # <<>>
    /\ Head(mailbox).t = "ActorState"
    /\ mailbox' = Tail(mailbox)

\* C12 as stated: a channel recorded by a processed request leaves the
\* driver only by being signaled.
C12_EveryChannelSignaled ==
    [][(drop_notify # 0 /\ drop_notify' # drop_notify) =>
           Cnt(signaled', drop_notify) = 1]_vars

\* C12 amended: a processed request records its channel (or none) in place
\* of the one recorded before, which is dropped unsignaled; the channel
\* recorded last is signaled exactly once, by the teardown of the driver,
\* and nothing is signaled at any other time.
C12_LastChannelSignaled ==
    /\ [][TakesRequest =>
            /\ drop_notify' = Head(mailbox).tok
            /\ signaled' = signaled
            /\ drop_notify # 0 => drop_notify \in dropped']_vars
    /\ [][(drop_notify # 0 /\ drop_notify' # drop_notify /\ ~TakesRequest) =>
            /\ pc' = "done"
            /\ drop_notify' = 0
            /\ signaled' = Inc(signaled, drop_notify)]_vars
    /\ [][signaled' # signaled => (pc # "done" /\ pc' = "done")]_vars
    /\ [](\A ch \in DOMAIN signaled : signaled[ch] = 1 /\ ch \notin dropped)
    /\ [](pc = "done" => drop_notify = 0)
    /\ [](Cardinality(DOMAIN signaled) <= 1)

\* Two requests with channels were processed: the first channel was
\* dropped, the second signaled at teardown after the stop hook.
C12_Witness ==
    /\ pc = "done"
    /\ onStop = 1
    /\ panics = 0
    /\ \E a \in dropped : \E b \in DOMAIN signaled : a < b /\ signaled[b] = 1


\* C13: the state starts at Stop and only moves forward: Running is entered
\* from Stop alone, and a state that is StopGraceful stays StopGraceful.
C13_StateForward ==
    /\ state = "Stop"
    /\ [][/\ state' = "Running" => state \in {"Stop", "Running"}
          /\ state = "StopGraceful" => state' = "StopGraceful"
          /\ state = "Running" => state' \in {"Running", "StopGraceful"}]_vars


\* The driver takes the message at the head of the mailbox.
DriverTakes ==
    /\ pc \in {"try_recv", "recv"}
    /\ mailbox # <<>>
    /\ mailbox' = Tail(mailbox)

\* The driver takes a hard-stop request.
HardStopTaken == TakesRequest /\ Head(mailbox).s = "Stop"

Fired(i) ==
    IF tasks[i].type = "later" THEN Cnt(ndisp, DelayPayload(i))
    ELSE Cardinality(Clones(i))

QueueOf(i) == IF tasks[i].type = "later" THEN delay_queue ELSE interval_queue

EntryOf(i) == IF tasks[i].type = "later" THEN DelayPayload(i) ELSE IntervalTemplate(i)

Stored(i) == EntryOf(i) \in SlabVals(QueueOf(i))

\* The i-th schedule still refers to its token: its entry is live or its
\* timer task is still running.
Referenced(i) == Stored(i) \/ tasks[i].st # "done"

Timers == LaterTasks \cup IntervalTasks

\* The timers whose live entry sits under key tok of the queue that token
\* messages of type t address.
HoldersOf(t, tok) ==
    {i \in Timers : /\ tasks[i].token = tok
                    /\ Stored(i)
                    /\ tasks[i].type = (IF t \in {"DelayToken", "DelayTokenCancel"}
                                        THEN "later" ELSE "interval")}

\* C16: within one queue no two schedules that are still referenced share a
\* token, a live entry is found under its schedule's token, and every
\* token message in the mailbox was sent by the timer task of the schedule
\* whose live entry is under that token; so a schedule is resolved only by
\* its own fire tokens and removed only by its own fire or cancel token.
C16_TokensLiveUnique ==
    /\ \A i, j \in Timers :
           (i # j /\ tasks[i].type = tasks[j].type /\ tasks[i].token = tasks[j].token)
               => ~(Referenced(i) /\ Referenced(j))
    /\ \A i \in Timers :
           /\ Stored(i) => /\ SlabContains(QueueOf(i), tasks[i].token)
                           /\ SlabGet(QueueOf(i), tasks[i].token) = EntryOf(i)
           /\ Fired(i) <= tasks[i].sent
           /\ ~Stored(i) => IF tasks[i].type = "later"
                            THEN Fired(i) = 1 \/ tasks[i].cancels = 1
                            ELSE tasks[i].cancels = 1
    /\ \A m \in DOMAIN mailbox :
           /\ mailbox[m].t \in {"DelayToken", "IntervalToken"} =>
                  \E i \in HoldersOf(mailbox[m].t, mailbox[m].tok) :
                      Fired(i) + Cardinality(TokenAt(mailbox[m].t, mailbox[m].tok)) = tasks[i].sent
           /\ mailbox[m].t \in {"DelayTokenCancel", "IntervalTokenCancel"} =>
                  \E i \in HoldersOf(mailbox[m].t, mailbox[m].tok) :
                      /\ tasks[i].cancels = 1
                      /\ Cardinality(TokenAt(mailbox[m].t, mailbox[m].tok)) = 1

\* A one-shot schedule fired and was resolved, a second one was then given
\* the same token, the first one's handle was invoked late, and the second
\* has been dispatched too.
C16_Witness ==
    \E i, j \in LaterTasks :
        /\ i < j
        /\ tasks[i].token = tasks[j].token
        /\ tasks[i].handle = "invoked"
        /\ Fired(i) = 1
        /\ Fired(j) = 1


\* The driver has left the receive loop with the state StopGraceful.
LoopLeft == pc \in {"stop_hook", "on_stop", "done"} /\ state = "StopGraceful"

\* C17: taking a hard-stop request calls stop() and leaves the loop at once
\* with the concurrent cache unflushed; from then on no message is
\* dispatched and no handler is started, only the stop hook runs.  Taking
\* a StopGraceful request calls stop() and goes on with the loop; taking a
\* Running request changes neither the state nor the receiver and goes on.
C17_HardStop ==
    /\ [][HardStopTaken =>
            /\ pc' = "stop_hook"
            /\ rxClosed'
            /\ state' = "StopGraceful"
            /\ <<cache_ref, cache_mut, fut, nstart, ndisp>>' = <<cache_ref, cache_mut, fut, nstart, ndisp>>]_vars
    /\ [][LoopLeft =>
            /\ pc' \in {"stop_hook", "on_stop", "done"}
            /\ state' = "StopGraceful"
            /\ nstart' = nstart
            /\ ndisp' = ndisp
            /\ ndone' = ndone]_vars
    /\ [][(TakesRequest /\ Head(mailbox).s = "StopGraceful") =>
            /\ pc' = "try_recv"
            /\ rxClosed'
            /\ state' = "StopGraceful"]_vars
    /\ [][(TakesRequest /\ Head(mailbox).s = "Running") =>
            /\ pc' = "try_recv"
            /\ rxClosed' = rxClosed
            /\ state' = state]_vars

\* The stop hook runs after a hard stop that left a message in the mailbox
\* and a pulled concurrent message unstarted in the cache.
C17_Witness ==
    /\ pc = "on_stop"
    /\ onStop = 1
    /\ mailbox # <<>>
    /\ \E p \in Range(cache_ref) : Cnt(nstart, p) = 0


\* C18: whenever the receive loop ends because the mailbox is closed, and not
\* through a hard-stop request, stop() has been called, so that the receiver
\* is closed and the state is StopGraceful, and the concurrent cache is empty
\* when the stop hook is about to start; this covers both try_recv reporting
\* Closed and recv() returning None.
C18_ClosedExitStopped ==
    [][(pc' = "stop_hook" /\ pc # "stop_hook" /\ ~HardStopTaken) =>
            /\ state' = "StopGraceful"
            /\ rxClosed'
            /\ cache_ref' = <<>>
            /\ fut' = {}]_vars


\* C19: whenever the driver is blocked in recv(), the concurrent cache, the
\* pool of in-flight handlers and the cached exclusive slot are all empty,
\* and no exclusive handler is running; and every flush that returns to its
\* caller returns with the in-flight pool and the concurrent cache empty.
C19_IdleHoldsNothing ==
    /\ [](pc = "recv" =>
            /\ cache_ref = <<>>
            /\ fut = {}
            /\ cache_mut = NoP
            /\ excl = {})
    /\ [][(pc = "flush" /\ pc' \notin {"flush", "done"} /\ panics' = panics) =>
            /\ pc' = after
            /\ fut = {}
            /\ fut' = {}
            /\ cache_ref' = <<>>]_vars
    /\ [](pc # "flush" => fut = {})

\* The driver blocks in recv() after concurrent and exclusive messages were
\* cached, started and completed.
C19_Witness ==
    /\ pc = "recv"
    /\ panics = 0
    /\ \E p \in DOMAIN ndone : ndone[p] = 1 /\ p.kind = "Ref"
    /\ \E p \in DOMAIN ndone : ndone[p] = 1 /\ p.kind = "Mut"


\* The driver takes a message of type t from the mailbox.
TakesToken(t) == DriverTakes /\ Head(mailbox).t = t

\* Slab q2 is slab q without the entry at key: that entry is vacant, every
\* other key is occupied as before and holds the same value.
OnlyRemoved(q, q2, key) ==
    /\ SlabContains(q, key)
    /\ ~SlabContains(q2, key)
    /\ Len(q2.entries) = Len(q.entries)
    /\ \A other \in 0..(Len(q.entries) - 1) :
          other # key =>
            /\ SlabContains(q2, other) = SlabContains(q, other)
            /\ SlabContains(q, other) => SlabGet(q2, other) = SlabGet(q, other)

\* The step dispatches message object p per its kind: a concurrent message
\* is appended to cache_ref, an exclusive one is cached in cache_mut and
\* handle_exclusive begins.
DispatchedAs(p) ==
    /\ ndisp' = Inc(ndisp, p)
    /\ IF p.kind = "Mut"
       THEN /\ cache_mut' = p
            /\ cache_ref' = cache_ref
            /\ pc' \in {"flush", "excl"}
       ELSE /\ cache_ref' = Append(cache_ref, p)
            /\ cache_mut' = cache_mut
            /\ pc' = "try_recv"

\* The step dispatches nothing, touches no cache and goes on with the loop.
NothingDone ==
    /\ cache_ref' = cache_ref
    /\ cache_mut' = cache_mut
    /\ fut' = fut
    /\ ndisp' = ndisp
    /\ nstart' = nstart
    /\ state' = state
    /\ rxClosed' = rxClosed
    /\ pc' = "try_recv"

\* handle_message applied to m in the current state can only be a no-op.
NoOpOn(m) ==
    /\ ENABLED HandleMessage(m)
    /\ ~ENABLED (/\ HandleMessage(m)
                 /\ ~(/\ delay_queue' = delay_queue
                      /\ interval_queue' = interval_queue
                      /\ NothingDone))

\* C20: a Delay token whose entry is present removes exactly that entry and
\* dispatches its payload per its kind, every other delay entry and
\* interval_queue staying as they were; an Interval token whose entry is
\* present dispatches a fresh clone of the template and changes neither
\* queue; a cancel token whose entry is present removes only that entry and
\* dispatches nothing; and in every state in which the driver receives,
\* handle_message given a token of any of the four types whose entry is
\* absent changes no queue and no cache, dispatches nothing and goes on
\* with the loop.
C20_TokenEffects ==
    /\ [][(TakesToken("DelayToken") /\ SlabContains(delay_queue, Head(mailbox).tok)) =>
            /\ OnlyRemoved(delay_queue, delay_queue', Head(mailbox).tok)
            /\ DispatchedAs(SlabGet(delay_queue, Head(mailbox).tok))
            /\ interval_queue' = interval_queue]_vars
    /\ [][(TakesToken("IntervalToken") /\ SlabContains(interval_queue, Head(mailbox).tok)) =>
            /\ interval_queue' = interval_queue
            /\ delay_queue' = delay_queue
            /\ \E p \in DOMAIN ndisp' :
                  /\ p \notin DOMAIN ndisp
                  /\ p.kind = SlabGet(interval_queue, Head(mailbox).tok).kind
                  /\ p.org = "interval"
                  /\ p.sch = SlabGet(interval_queue, Head(mailbox).tok).sch
                  /\ DispatchedAs(p)]_vars
    /\ [][(TakesToken("DelayTokenCancel") /\ SlabContains(delay_queue, Head(mailbox).tok)) =>
            /\ OnlyRemoved(delay_queue, delay_queue', Head(mailbox).tok)
            /\ interval_queue' = interval_queue
            /\ NothingDone]_vars
    /\ [][(TakesToken("IntervalTokenCancel") /\ SlabContains(interval_queue, Head(mailbox).tok)) =>
            /\ OnlyRemoved(interval_queue, interval_queue', Head(mailbox).tok)
            /\ delay_queue' = delay_queue
            /\ NothingDone]_vars
    /\ [](pc \in {"try_recv", "recv"} =>
            /\ \A tok \in 0..Len(delay_queue.entries) :
                  ~SlabContains(delay_queue, tok) =>
                    /\ NoOpOn(TokenMsg("DelayToken", tok))
                    /\ NoOpOn(TokenMsg("DelayTokenCancel", tok))
            /\ \A tok \in 0..Len(interval_queue.entries) :
                  ~SlabContains(interval_queue, tok) =>
                    /\ NoOpOn(TokenMsg("IntervalToken", tok))
                    /\ NoOpOn(TokenMsg("IntervalTokenCancel", tok)))

\* The driver is receiving after the token of one one-shot schedule was
\* resolved and its payload dispatched: that entry is gone, so its key has
\* no entry, while the entry of another schedule is still stored.
C20_Witness ==
    /\ pc = "try_recv"
    /\ \E i, j \in LaterTasks :
          /\ i # j
          /\ Fired(i) = 1
          /\ ~SlabContains(delay_queue, tasks[i].token)
          /\ tasks[j].token # tasks[i].token
          /\ SlabContains(delay_queue, tasks[j].token)
          /\ SlabGet(delay_queue, tasks[j].token) = DelayPayload(j)


\* The unwinding of a panic raised in a concurrent handler while an
\* exclusive message waits in the slot and the state is Running.
PanicBeforeExclusive ==
    /\ panics' = panics + 1
    /\ pc = "flush"
    /\ cache_mut # NoP
    /\ state = "Running"

\* The unwinding of a panic raised in an exclusive handler.
PanicInExclusive == panics' = panics + 1 /\ pc = "excl_run"

\* C21: a panic of a concurrent handler in the flush before exclusive
\* message M, with the state Running, leaves M in the slot and respawns
\* run() with the mailbox untouched; while M is in the slot the driver pulls
\* no message from the mailbox, and M leaves the slot only when its handler
\* starts, with the concurrent cache flushed and no handler in flight, or
\* when a panic with the state not Running tears the driver down; no
\* exclusive handler is started twice; when M's own handler panics the slot
\* is already empty and M is neither cached, buffered nor running
\* afterwards; and under fair scheduling a recovered driver holding M
\* eventually empties the slot, hence starts M's handler unless a further
\* panic with the state not Running ends the actor.
C21_ExclusiveAcrossPanic ==
    /\ [][PanicBeforeExclusive =>
            /\ pc' = "run"
            /\ cache_mut' = cache_mut
            /\ Cnt(nstart, cache_mut) = 0
            /\ mailbox' = mailbox
            /\ \A p \in Range(cache_ref) : Cnt(ndone, p) = 0 => p \in Range(cache_ref')]_vars
    /\ [](cache_mut # NoP =>
            /\ pc \in {"run", "flush", "pre_mut", "excl"}
            /\ cache_mut.kind = "Mut"
            /\ Cnt(nstart, cache_mut) = 0)
    /\ [][cache_mut # NoP => ~DriverTakes]_vars
    /\ [][(cache_mut # NoP /\ cache_mut' # cache_mut) =>
            \/ /\ excl' = {cache_mut}
               /\ nstart' = Inc(nstart, cache_mut)
               /\ cache_mut' = NoP
               /\ cache_ref = <<>>
               /\ fut = {}
               /\ pc' = "excl_run"
            \/ /\ panics' = panics + 1
               /\ state # "Running"
               /\ pc' = "done"]_vars
    /\ [](\A p \in DOMAIN nstart : p.kind = "Mut" => nstart[p] = 1)
    /\ [][PanicInExclusive =>
            /\ cache_mut = NoP
            /\ cache_mut' = NoP
            /\ excl' = {}
            /\ \A p \in excl : Cnt(nstart, p) = 1 /\ Cnt(ndone, p) = 0]_vars
    /\ [](\A p \in DOMAIN nstart :
            (p.kind = "Mut" /\ p \notin excl) => (cache_mut # p /\ ~InMailbox(p)))
    /\ (pc = "run" /\ cache_mut # NoP) ~> (cache_mut = NoP)

\* The driver has just been respawned after a concurrent handler panicked
\* in the flush before an exclusive message: the message is in the slot,
\* not started, an unfinished concurrent message survives in the cache and
\* a newer message waits in the mailbox.
C21_Witness ==
    /\ pc = "run"
    /\ panics = 1
    /\ state = "Running"
    /\ cache_mut # NoP
    /\ Cnt(nstart, cache_mut) = 0
    /\ cache_ref # <<>>
    /\ mailbox # <<>>

====
